---- MODULE Spec2Model ----
(***************************************************************************)
(* Model of the superwhisper input-device selector (src/unnamed/part_000). *)
(* The preference store reached through `defaults`, the reader             *)
(* getCurrentSuperwhisperDevice, the writer setSuperwhisperDevice, the     *)
(* restart sequence restartSuperwhisper and the two action handlers of the *)
(* command, handleSelectDevice and handleUseSystemDefault.                 *)
(***************************************************************************)
EXTENDS Integers, Sequences, FiniteSets, TLC

VARIABLES
    store,           \* the preference store: domain -> [readable, keys]
    envSteps,        \* number of changes made to the store from outside
    lastWrite,       \* None, or the last call of setSuperwhisperDevice
    lastRead,        \* None, or the last call of getCurrentSuperwhisperDevice
    run,             \* per handler invocation: pc, device, log, toasts
    refreshPending,  \* the load of useInputDevices is due (mount, revalidate())
    loaded           \* a load has completed: the command has its data

vars == <<store, envSteps, lastWrite, lastRead, run, refreshPending, loaded>>

----------------------------------------------------------------------------
(* Bounds *)

\* longest device uid, in characters
MaxUidLen == 2
\* how often a preference domain is created or deleted from outside
MaxEnvSteps == 2

----------------------------------------------------------------------------
(* Values *)

\* null / undefined / a missing key, and a present value
None == <<>>
Some(v) == <<v>>

\* Strings are sequences of characters.  The alphabet has one ordinary
\* character and one white-space character; it has no character that is
\* special to the shell inside double quotes.
SPACE == " "
LF == "\n"
Chars == {"A", SPACE}
WhiteSpace == {SPACE, LF}

RECURSIVE StringsUpTo(_)
StringsUpTo(n) ==
    IF n = 0 THEN {<<>>}
    ELSE LET S == StringsUpTo(n - 1)
         IN  S \cup {Append(s, c) : s \in {t \in S : Len(t) = n - 1}, c \in Chars}

\* AudioDevice: only uid reaches the preference store; uid is non-empty
Uids == StringsUpTo(MaxUidLen) \ {<<>>}
AudioDevice == {[uid |-> u] : u \in Uids}
DeviceOrNull == {None} \cup {Some(d) : d \in AudioDevice}

\* String.prototype.trim
RECURSIVE TrimStart(_)
TrimStart(s) ==
    IF s # <<>> /\ Head(s) \in WhiteSpace THEN TrimStart(Tail(s)) ELSE s

RECURSIVE TrimEnd(_)
TrimEnd(s) ==
    IF s # <<>> /\ s[Len(s)] \in WhiteSpace
    THEN TrimEnd(SubSeq(s, 1, Len(s) - 1))
    ELSE s

trim(s) == TrimEnd(TrimStart(s))

----------------------------------------------------------------------------
(* The preference store and the `defaults` tool *)

SUPERWHISPER_DOMAIN == "com.superduper.superwhisper"
SETAPP_DOMAIN == "com.superduper.superwhisper-setapp"
Domains == {SUPERWHISPER_DOMAIN, SETAPP_DOMAIN}

SUPERWHISPER_PLIST == "~/Library/Preferences/com.superduper.superwhisper.plist"
SUPERWHISPER_SETAPP_PLIST == "~/Library/Preferences/com.superduper.superwhisper-setapp.plist"

EmptyDomain == [readable |-> FALSE, useDefaultAudioDevice |-> None, selectedDeviceID |-> None]

\* `defaults read <domain>`: exit status 0 iff the domain can be read
defaultsReadDomain(st, domain) == st[domain].readable

\* `defaults read <domain> <key>`: None when the command fails (no such
\* domain or key), else what it prints: a boolean as 1 or 0, a string as it is,
\* followed by a line feed
defaultsReadKey(st, domain, key) ==
    IF ~st[domain].readable \/ st[domain][key] = None THEN None
    ELSE LET v == st[domain][key][1]
         IN  IF key = "useDefaultAudioDevice"
             THEN Some(<<(IF v THEN "1" ELSE "0"), LF>>)
             ELSE Some(v \o <<LF>>)

\* `defaults write <domain> <key> <value>`
defaultsWrite(st, domain, key, value) ==
    [st EXCEPT ![domain] = [@ EXCEPT ![key] = Some(value), !.readable = TRUE]]

\* `echo "<s>"`
echo(s) == s \o <<LF>>

\* `<command> 2>/dev/null || echo "<s>"`
orEcho(out, s) == IF out = None THEN echo(s) ELSE out[1]

----------------------------------------------------------------------------
(* Identity resolution *)

getSuperwhisperPlistPath_SetappFirst(st) ==
    IF defaultsReadDomain(st, SETAPP_DOMAIN) THEN Some(SUPERWHISPER_SETAPP_PLIST)
    ELSE IF defaultsReadDomain(st, SUPERWHISPER_DOMAIN) THEN Some(SUPERWHISPER_PLIST)
    ELSE None

getSuperwhisperPlistPath(st) ==
    IF defaultsReadDomain(st, SUPERWHISPER_DOMAIN) THEN Some(SUPERWHISPER_PLIST)
    ELSE IF defaultsReadDomain(st, SETAPP_DOMAIN) THEN Some(SUPERWHISPER_SETAPP_PLIST)
    ELSE None

\* plistPath.includes("setapp") ? setapp domain : standard domain
domainOf(plistPath) ==
    IF plistPath = SUPERWHISPER_SETAPP_PLIST THEN SETAPP_DOMAIN ELSE SUPERWHISPER_DOMAIN

----------------------------------------------------------------------------
(* The reader: getCurrentSuperwhisperDevice *)

\* which execSync of the reader fails to run its command at all (it throws)
ReadFaults == {"none", "useDefaultAudioDevice", "selectedDeviceID"}

IsUseDefault_True(useDefaultStr) == useDefaultStr = <<"t", "r", "u", "e">>

\* useDefaultStr === "1"
IsUseDefault(useDefaultStr) == useDefaultStr = <<"1">>

OrNull_Keep(deviceId) == Some(deviceId)

\* deviceId || null
OrNull(deviceId) == IF deviceId = <<>> THEN None ELSE Some(deviceId)

\* the value returned on every early exit and by the catch block
DefaultConfig == [deviceId |-> None, useDefault |-> TRUE]

\* the body of the try block; threw = an execSync of it threw
getCurrentTry(st, fault) ==
    LET plistPath == getSuperwhisperPlistPath(st)
    IN  IF plistPath = None
        THEN [threw |-> FALSE, config |-> DefaultConfig, keysRead |-> {}]
        ELSE
        LET domain == domainOf(plistPath[1])
        IN  IF fault = "useDefaultAudioDevice"
            THEN [threw |-> TRUE, config |-> DefaultConfig, keysRead |-> {}]
            ELSE
            LET useDefaultStr ==
                    trim(orEcho(defaultsReadKey(st, domain, "useDefaultAudioDevice"), <<"1">>))
                useDefault == IsUseDefault(useDefaultStr)
            IN  IF useDefault
                THEN [threw |-> FALSE, config |-> DefaultConfig,
                      keysRead |-> {"useDefaultAudioDevice"}]
                ELSE IF fault = "selectedDeviceID"
                THEN [threw |-> TRUE, config |-> DefaultConfig,
                      keysRead |-> {"useDefaultAudioDevice"}]
                ELSE
                LET deviceId ==
                        trim(orEcho(defaultsReadKey(st, domain, "selectedDeviceID"), <<>>))
                IN  [threw |-> FALSE,
                     config |-> [deviceId |-> OrNull(deviceId), useDefault |-> FALSE],
                     keysRead |-> {"useDefaultAudioDevice", "selectedDeviceID"}]

getCurrentSuperwhisperDevice_NoCatch(st, fault) == getCurrentTry(st, fault)

getCurrentSuperwhisperDevice(st, fault) ==
    LET r == getCurrentTry(st, fault)
    IN  IF r.threw THEN [r EXCEPT !.threw = FALSE, !.config = DefaultConfig] ELSE r

----------------------------------------------------------------------------
(* The writer: setSuperwhisperDevice *)

ERR_NOT_FOUND == "Superwhisper preferences not found"
ERR_COMMAND_FAILED == "Command failed: defaults write"

\* which `defaults write` of the call fails: none, the first or the second
WriteFaults == {"none", "first", "second"}

\* store: the store after the call; threw/message: the Error it threw;
\* written: the keys it wrote, in order
setSuperwhisperDevice(st, device, fault) ==
    LET plistPath == getSuperwhisperPlistPath(st)
    IN  IF plistPath = None
        THEN [store |-> st, threw |-> TRUE, message |-> ERR_NOT_FOUND, written |-> <<>>]
        ELSE
        LET domain == domainOf(plistPath[1])
            failed(w) == [store |-> st, threw |-> TRUE, message |-> ERR_COMMAND_FAILED,
                          written |-> w]
        IN  IF fault = "first" THEN failed(<<>>)
            ELSE IF device = None
            THEN [store |-> defaultsWrite(st, domain, "useDefaultAudioDevice", TRUE),
                  threw |-> FALSE, message |-> "",
                  written |-> <<"useDefaultAudioDevice">>]
            ELSE
            LET st1 == defaultsWrite(st, domain, "useDefaultAudioDevice", FALSE)
            IN  IF fault = "second"
                THEN [failed(<<"useDefaultAudioDevice">>) EXCEPT !.store = st1]
                ELSE [store |-> defaultsWrite(st1, domain, "selectedDeviceID", device[1].uid),
                      threw |-> FALSE, message |-> "",
                      written |-> <<"useDefaultAudioDevice", "selectedDeviceID">>]

----------------------------------------------------------------------------
(* Initial states *)

\* device ids a domain may hold before the command runs
InitIds == {None, Some(<<>>), Some(<<"A">>)}

InitDomains ==
    {EmptyDomain} \cup
    [readable : {TRUE},
     useDefaultAudioDevice : {None, Some(TRUE), Some(FALSE)},
     selectedDeviceID : InitIds]

Runs == {1, 2}

IdleRun == [pc |-> "idle", device |-> None, wrote |-> "no", log |-> <<>>, toasts |-> <<>>]

Init ==
    /\ store \in [Domains -> InitDomains]
    /\ envSteps = 0
    /\ lastWrite = None
    /\ lastRead = None
    /\ run = [r \in Runs |-> IdleRun]
    /\ refreshPending = TRUE
    /\ loaded = FALSE

----------------------------------------------------------------------------
(* Calls of the reader and of the writer, and the world outside *)

ReadRecord(fault) ==
    LET r == getCurrentSuperwhisperDevice(store, fault)
    IN  [fault |-> fault, config |-> r.config, threw |-> r.threw,
         keysRead |-> r.keysRead, resolved |-> getSuperwhisperPlistPath(store)]

WriteRecord(r, device, fault, w) ==
    [run |-> r, device |-> device, fault |-> fault, threw |-> w.threw,
     message |-> w.message, written |-> w.written,
     resolved |-> getSuperwhisperPlistPath(store)]

\* a write fault names one of the `defaults write` commands the call runs
FaultsFor(device) == IF device = None THEN {"none", "first"} ELSE WriteFaults

\* getCurrentSuperwhisperDevice()
GetDevice(fault) ==
    /\ lastRead' = Some(ReadRecord(fault))
    /\ UNCHANGED <<store, envSteps, lastWrite, run, refreshPending, loaded>>

\* setSuperwhisperDevice(device); the Error it throws goes to the caller
SetDevice(device, fault) ==
    LET w == setSuperwhisperDevice(store, device, fault)
    IN  /\ store' = w.store
        /\ lastWrite' = Some(WriteRecord(0, device, fault, w))
        /\ lastRead' = None
        /\ UNCHANGED <<envSteps, run, refreshPending, loaded>>

\* the application's first launch creates its preference domain
DomainCreated(domain) ==
    /\ envSteps < MaxEnvSteps
    /\ ~store[domain].readable
    /\ store' = [store EXCEPT ![domain] = [EmptyDomain EXCEPT !.readable = TRUE]]
    /\ envSteps' = envSteps + 1
    /\ lastWrite' = None
    /\ lastRead' = None
    /\ UNCHANGED <<run, refreshPending, loaded>>

\* the preference domain is deleted (`defaults delete`, an uninstaller)
DomainDeleted(domain) ==
    /\ envSteps < MaxEnvSteps
    /\ store[domain].readable
    /\ store' = [store EXCEPT ![domain] = EmptyDomain]
    /\ envSteps' = envSteps + 1
    /\ lastWrite' = None
    /\ lastRead' = None
    /\ UNCHANGED <<run, refreshPending, loaded>>

StoreNext ==
    \/ \E fault \in ReadFaults : GetDevice(fault)
    \/ \E device \in DeviceOrNull : \E fault \in FaultsFor(device) : SetDevice(device, fault)
    \/ \E domain \in Domains : DomainCreated(domain)
    \/ \E domain \in Domains : DomainDeleted(domain)

\* the reader and the writer called in any order on a store that changes
StoreSpec == Init /\ [][StoreNext]_vars

----------------------------------------------------------------------------
(* The handlers: handleSelectDevice, handleUseSystemDefault, and
   restartSuperwhisper, one action per synchronous stretch of code *)

SUPERWHISPER_BUNDLE_ID == "SUPERWHISPER_BUNDLE_ID"
SUPERWHISPER_SETAPP_BUNDLE_ID == "SUPERWHISPER_SETAPP_BUNDLE_ID"
OPEN_BY_NAME == "open -a superwhisper"

Entry(step, arg, ok) == [step |-> step, arg |-> arg, ok |-> ok]

RECURSIVE WriteEntries(_)
WriteEntries(written) ==
    IF written = <<>> THEN <<>>
    ELSE <<Entry("write", Head(written), TRUE)>> \o WriteEntries(Tail(written))

AnimatedToast == [style |-> "Animated", title |-> "Restarting Superwhisper...", message |-> ""]
FailureToast(title, message) == [style |-> "Failure", title |-> title, message |-> message]

pcAfterWrite_NoCatch(threw) == "toast"

pcAfterWrite_SkipQuit(threw) == IF threw THEN "failed" ELSE "settle"

\* try { setSuperwhisperDevice(..); await showToast(Animated) ... } catch { .. }
pcAfterWrite(threw) == IF threw THEN "failed" ELSE "toast"

\* the first stretch of both handlers: the write, then the toast that fits
HandlerStart(r, device, fault, failTitle) ==
    LET w == setSuperwhisperDevice(store, device, fault)
        pc == pcAfterWrite(w.threw)
    IN  /\ run[r].pc = "idle"
        /\ \A q \in Runs : run[q].pc \notin {"closing", "done"}
        /\ store' = w.store
        /\ lastWrite' = Some(WriteRecord(r, device, fault, w))
        /\ lastRead' = None
        /\ run' = [run EXCEPT ![r] =
               [pc |-> pc,
                device |-> device,
                wrote |-> IF w.threw THEN "threw" ELSE "ok",
                log |-> WriteEntries(w.written),
                toasts |-> IF pc = "failed"
                           THEN <<FailureToast(failTitle, w.message)>>
                           ELSE <<AnimatedToast>>]]
        /\ UNCHANGED <<envSteps, refreshPending, loaded>>

\* the action of a device's list item, there once the devices are loaded
handleSelectDevice(r, device, fault) ==
    /\ loaded
    /\ HandlerStart(r, Some(device), fault, "Failed to set input device")

\* the action of the "Use System Default" item
handleUseSystemDefault(r, fault) ==
    HandlerStart(r, None, fault, "Failed to set system default")

FailTitle(r) ==
    IF run[r].device = None THEN "Failed to set system default"
    ELSE "Failed to set input device"

\* restartSuperwhisper, to its first await: the quit request (its failure is
\* caught), then the timer is set
Quit(r, ok) ==
    /\ run[r].pc = "toast"
    /\ run' = [run EXCEPT ![r].pc = "settle",
                          ![r].log = Append(@, Entry("quit", "superwhisper", ok))]
    /\ UNCHANGED <<store, envSteps, lastWrite, lastRead, refreshPending, loaded>>

relaunchNext_KeepGoing(attempt, ok) ==
    IF attempt = "standard" THEN "setapp" ELSE "name"

\* the nested try/catch of the relaunch: what is tried after an attempt
relaunchNext(attempt, ok) ==
    IF ok THEN "none"
    ELSE IF attempt = "standard" THEN "setapp"
    ELSE "name"

openByName_Unmasked(ok) == [threw |-> ~ok]

\* execSync(`open -a superwhisper 2>/dev/null || true`): `|| true` makes the
\* command line succeed whether or not the application was opened
openByName(ok) == [threw |-> FALSE]

\* the run after an attempt has settled and `next` is what follows it;
\* the launch by name is synchronous, so it belongs to the same stretch
AfterAttempt(r, log, next, nameOk) ==
    IF next = "setapp" THEN [run[r] EXCEPT !.pc = "open2", !.log = log]
    ELSE IF next = "none" THEN [run[r] EXCEPT !.pc = "restarted", !.log = log]
    ELSE LET byName == Append(log, Entry("open", OPEN_BY_NAME, nameOk))
         IN  IF openByName(nameOk).threw
             THEN [run[r] EXCEPT !.pc = "failed", !.log = byName,
                       !.toasts = Append(@, FailureToast(FailTitle(r), ERR_COMMAND_FAILED))]
             ELSE [run[r] EXCEPT !.pc = "restarted", !.log = byName]

\* the timer fires: open("superwhisper://", SUPERWHISPER_BUNDLE_ID) is called
Settle(r) ==
    /\ run[r].pc = "settle"
    /\ run' = [run EXCEPT ![r].pc = "open1",
                          ![r].log = Append(@, Entry("settle", "setTimeout", TRUE))]
    /\ UNCHANGED <<store, envSteps, lastWrite, lastRead, refreshPending, loaded>>

\* the first open() settles; on rejection the second is called
OpenStandardSettled(r, ok, nameOk) ==
    /\ run[r].pc = "open1"
    /\ run' = [run EXCEPT ![r] =
           AfterAttempt(r, Append(run[r].log, Entry("open", SUPERWHISPER_BUNDLE_ID, ok)),
                        relaunchNext("standard", ok), nameOk)]
    /\ UNCHANGED <<store, envSteps, lastWrite, lastRead, refreshPending, loaded>>

\* the second open() settles; on rejection the launch by name runs
OpenSetappSettled(r, ok, nameOk) ==
    /\ run[r].pc = "open2"
    /\ run' = [run EXCEPT ![r] =
           AfterAttempt(r, Append(run[r].log, Entry("open", SUPERWHISPER_SETAPP_BUNDLE_ID, ok)),
                        relaunchNext("setapp", ok), nameOk)]
    /\ UNCHANGED <<store, envSteps, lastWrite, lastRead, refreshPending, loaded>>

\* restartSuperwhisper has returned: revalidate(), then closeMainWindow
Revalidate(r) ==
    /\ run[r].pc = "restarted"
    /\ run' = [run EXCEPT ![r].pc = "closing",
                          ![r].log = Append(@, Entry("revalidate", "", TRUE))]
    /\ refreshPending' = TRUE
    /\ UNCHANGED <<store, envSteps, lastWrite, lastRead, loaded>>

\* popToRoot and showHUD: the handler is done
Finish(r) ==
    /\ run[r].pc = "closing"
    /\ run' = [run EXCEPT ![r].pc = "done"]
    /\ UNCHANGED <<store, envSteps, lastWrite, lastRead, refreshPending, loaded>>

\* the load of useInputDevices, as far as the configuration it reads
Refresh(fault) ==
    /\ refreshPending
    /\ refreshPending' = FALSE
    /\ loaded' = TRUE
    /\ lastRead' = Some(ReadRecord(fault))
    /\ UNCHANGED <<store, envSteps, lastWrite, run>>

Start(r) ==
    \/ \E device \in AudioDevice : \E fault \in WriteFaults :
           handleSelectDevice(r, device, fault)
    \/ \E fault \in FaultsFor(None) : handleUseSystemDefault(r, fault)

Continue(r) ==
    \/ \E ok \in BOOLEAN : Quit(r, ok)
    \/ Settle(r)
    \/ \E ok, nameOk \in BOOLEAN : OpenStandardSettled(r, ok, nameOk)
    \/ \E ok, nameOk \in BOOLEAN : OpenSetappSettled(r, ok, nameOk)
    \/ Revalidate(r)
    \/ Finish(r)

Next ==
    \/ Start(1)
    \/ Continue(1)
    \/ \E fault \in ReadFaults : Refresh(fault)

\* the command with one item chosen
Spec == Init /\ [][Next]_vars

\* timers fire and promises settle: a started handler goes on
FairSpec == Spec /\ WF_vars(Continue(1))

TwoNext ==
    \/ \E r \in Runs : Start(r)
    \/ \E r \in Runs : Continue(r)
    \/ \E fault \in ReadFaults : Refresh(fault)

\* the application is installed in at most one of its two variants
TwoInit ==
    /\ Init
    /\ \E d \in Domains : store[d] = EmptyDomain

\* the command with two items chosen in quick succession
TwoSpec == TwoInit /\ [][TwoNext]_vars

----------------------------------------------------------------------------
(* Properties of the reader and the writer, under StoreSpec *)

\* the stored keys of the domain a call resolved
KeysOf(resolved) == store[domainOf(resolved[1])]

\* C1: setSuperwhisperDevice(d) with a non-empty uid, then
\* getCurrentSuperwhisperDevice() with no writer in between, returns
\* {useDefault: false, deviceId: d.uid}.
C1_RoundTripDevice ==
    (/\ lastWrite # None
     /\ lastRead # None
     /\ ~lastWrite[1].threw
     /\ lastWrite[1].device # None
     /\ lastRead[1].fault = "none")
    => /\ ~lastRead[1].threw
       /\ lastRead[1].config =
              [deviceId |-> Some(lastWrite[1].device[1].uid), useDefault |-> FALSE]

\* C2: setSuperwhisperDevice(null), then getCurrentSuperwhisperDevice() with
\* no writer in between, returns {deviceId: null, useDefault: true}, whatever
\* selectedDeviceID holds.
C2_RoundTripDefault ==
    (/\ lastWrite # None
     /\ lastRead # None
     /\ ~lastWrite[1].threw
     /\ lastWrite[1].device = None)
    => /\ ~lastRead[1].threw
       /\ lastRead[1].config = [deviceId |-> None, useDefault |-> TRUE]

\* a read after a null write on a domain that holds a device id which only
\* an earlier non-null write can have left
C2_Witness ==
    /\ lastWrite # None
    /\ lastRead # None
    /\ ~lastWrite[1].threw
    /\ lastWrite[1].device = None
    /\ KeysOf(lastWrite[1].resolved).selectedDeviceID = Some(<<"A", "A">>)

\* C3: getCurrentSuperwhisperDevice never throws; it returns
\* {deviceId: null, useDefault: true} when neither domain is readable and
\* when an execSync of a key read fails.
C3_ReaderNeverThrows ==
    lastRead # None =>
        LET rd == lastRead[1]
            neither == \A d \in Domains : ~store[d].readable
            failed ==
                /\ ~neither
                /\ \/ rd.fault = "useDefaultAudioDevice"
                   \/ /\ rd.fault = "selectedDeviceID"
                      /\ KeysOf(rd.resolved).useDefaultAudioDevice = Some(FALSE)
        IN  /\ ~rd.threw
            /\ neither => rd.config = [deviceId |-> None, useDefault |-> TRUE]
            /\ failed => rd.config = [deviceId |-> None, useDefault |-> TRUE]

\* a read after both domains have become unreadable
C3_Witness ==
    /\ lastRead # None
    /\ envSteps > 0
    /\ \A d \in Domains : ~store[d].readable
    /\ lastRead[1].config = [deviceId |-> None, useDefault |-> TRUE]

\* the domain the probes select: standard first, store-managed second
ProbedPath(st, ifNeither) ==
    IF st[SUPERWHISPER_DOMAIN].readable THEN Some(SUPERWHISPER_PLIST)
    ELSE IF st[SETAPP_DOMAIN].readable THEN Some(SUPERWHISPER_SETAPP_PLIST)
    ELSE ifNeither

\* C7 as stated: every read resolves the standard variant when its probe
\* succeeds, the store-managed variant when only that probe succeeds, and
\* the standard variant when both are absent.
C7_PrefersStandardWhenAbsent ==
    lastRead # None =>
        lastRead[1].resolved = ProbedPath(store, Some(SUPERWHISPER_PLIST))

\* C7, amended: every read and every write resolves, from the store as it is
\* at that call, the standard variant when its probe succeeds, the
\* store-managed variant when only that probe succeeds, and no variant (null)
\* when both are absent; a write changes no domain but the resolved one.
C7_ResolvedOnEveryCall ==
    [][/\ (lastRead' # None /\ lastRead' # lastRead)
            => lastRead'[1].resolved = ProbedPath(store, None)
       /\ (lastWrite' # None /\ lastWrite' # lastWrite)
            => /\ lastWrite'[1].resolved = ProbedPath(store, None)
               /\ \A d \in Domains :
                      store'[d] # store[d] =>
                          /\ store[d].readable
                          /\ d = SETAPP_DOMAIN => ~store[SUPERWHISPER_DOMAIN].readable
      ]_vars

\* a write that resolved the store-managed variant after the store changed
C7_Witness ==
    /\ lastWrite # None
    /\ envSteps > 0
    /\ ~lastWrite[1].threw
    /\ lastWrite[1].resolved = Some(SUPERWHISPER_SETAPP_PLIST)
    /\ ~store[SUPERWHISPER_DOMAIN].readable

\* C10: on useDefaultAudioDevice = false with selectedDeviceID absent or
\* empty the reader returns {deviceId: null, useDefault: false}; on
\* useDefaultAudioDevice true or absent it returns
\* {deviceId: null, useDefault: true} and does not read selectedDeviceID;
\* it throws in neither case.
C10_ReaderOnInconsistentKeys ==
    (lastRead # None /\ lastRead[1].resolved # None) =>
        LET rd == lastRead[1]
            keys == KeysOf(rd.resolved)
        IN  /\ (/\ rd.fault = "none"
                /\ keys.useDefaultAudioDevice = Some(FALSE)
                /\ keys.selectedDeviceID \in {None, Some(<<>>)})
               => /\ ~rd.threw
                  /\ rd.config = [deviceId |-> None, useDefault |-> FALSE]
            /\ keys.useDefaultAudioDevice \in {None, Some(TRUE)}
               => /\ ~rd.threw
                  /\ rd.config = [deviceId |-> None, useDefault |-> TRUE]
                  /\ "selectedDeviceID" \notin rd.keysRead

\* a read of the state a non-null write left when its second `defaults
\* write` failed on a domain that had no device id
C10_Witness ==
    /\ lastWrite # None
    /\ lastRead # None
    /\ lastWrite[1].fault = "second"
    /\ lastWrite[1].written = <<"useDefaultAudioDevice">>
    /\ KeysOf(lastWrite[1].resolved).selectedDeviceID = None
    /\ lastRead[1].fault = "none"
    /\ lastRead[1].config = [deviceId |-> None, useDefault |-> FALSE]


----------------------------------------------------------------------------
(* Properties of one handler run, under Spec and FairSpec *)

Steps(r, step) == SelectSeq(run[r].log, LAMBDA e : e.step = step)
Opens(r) == Steps(r, "open")

\* C4: when the write step fails the run ends Failed: no quit request, no
\* settle delay, no relaunch attempt and no revalidate in that run, and one
\* failure toast that carries the error message; without a resolvable domain
\* the message is "preferences not found" and no key was written.
C4_WriteFailureEndsRun ==
    \A r \in Runs :
        run[r].wrote = "threw" =>
            /\ run[r].pc = "failed"
            /\ \A i \in 1..Len(run[r].log) : run[r].log[i].step = "write"
            /\ Len(run[r].toasts) = 1
            /\ run[r].toasts[1].style = "Failure"
            /\ lastWrite[1].run = r => run[r].toasts[1].message = lastWrite[1].message
            /\ (lastWrite[1].run = r /\ \A d \in Domains : ~store[d].readable)
                   => /\ run[r].toasts[1].message = "Superwhisper preferences not found"
                      /\ run[r].log = <<>>

\* a run whose write found no preference domain
C4_Witness ==
    /\ run[1].wrote = "threw"
    /\ run[1].pc = "failed"
    /\ \A d \in Domains : ~store[d].readable
    /\ run[1].toasts = <<FailureToast("Failed to set input device", ERR_NOT_FOUND)>>

\* C5: once the write step has succeeded the run never fails and shows no
\* failure toast, whatever the quit request and the relaunch attempts do,
\* and it reaches Done.
C5_WrittenRunEndsDone ==
    /\ [](run[1].wrote = "ok" =>
              /\ run[1].pc # "failed"
              /\ \A i \in 1..Len(run[1].toasts) : run[1].toasts[i].style # "Failure")
    /\ (run[1].wrote = "ok") ~> (run[1].pc = "done")

\* a run that is Done after a failed quit and three failed relaunch attempts
C5_Witness ==
    /\ run[1].pc = "done"
    /\ Len(Steps(1, "quit")) = 1
    /\ ~Steps(1, "quit")[1].ok
    /\ Len(Opens(1)) = 3
    /\ \A i \in 1..3 : ~Opens(1)[i].ok

RelaunchOrder == <<SUPERWHISPER_BUNDLE_ID, SUPERWHISPER_SETAPP_BUNDLE_ID, OPEN_BY_NAME>>

\* C8: the relaunch attempts are made in the order standard bundle identity,
\* store-managed bundle identity, launch by name; each attempt but the first
\* follows a failed one, and none follows a successful one.
C8_RelaunchFallbackChain ==
    \A r \in Runs :
        LET opens == Opens(r)
        IN  /\ Len(opens) <= 3
            /\ \A i \in 1..Len(opens) :
                   /\ opens[i].arg = RelaunchOrder[i]
                   /\ i < Len(opens) => ~opens[i].ok

\* a relaunch that succeeded only by the launch by name
C8_Witness ==
    /\ Len(Opens(1)) = 3
    /\ ~Opens(1)[1].ok
    /\ ~Opens(1)[2].ok
    /\ Opens(1)[3].ok
    /\ Opens(1)[3].arg = OPEN_BY_NAME

Rank(step) ==
    CASE step = "write" -> 1
      [] step = "quit" -> 2
      [] step = "settle" -> 3
      [] step = "open" -> 4
      [] step = "revalidate" -> 5

ExpectedWrites(device) ==
    IF device = None THEN <<"useDefaultAudioDevice">>
    ELSE <<"useDefaultAudioDevice", "selectedDeviceID">>

RelaunchEnded(r) ==
    /\ Opens(r) # <<>>
    /\ Opens(r)[Len(Opens(r))].ok \/ Len(Opens(r)) = 3

StepOrder(r) ==
    LET log == run[r].log
        has(step) == Steps(r, step) # <<>>
    IN  /\ \A i, j \in 1..Len(log) : i < j => Rank(log[i].step) <= Rank(log[j].step)
        /\ \A step \in {"quit", "settle", "revalidate"} : Len(Steps(r, step)) <= 1
        /\ has("quit") =>
               /\ Len(Steps(r, "write")) = Len(ExpectedWrites(run[r].device))
               /\ \A i \in 1..Len(Steps(r, "write")) :
                      log[i] = Entry("write", ExpectedWrites(run[r].device)[i], TRUE)
        /\ has("settle") => has("quit")
        /\ has("open") => has("quit") /\ has("settle")
        /\ has("revalidate") => RelaunchEnded(r)
        /\ run[r].pc = "done" => has("revalidate")
        /\ run[r].pc = "failed" => run[r].wrote = "threw"

\* C9: the steps of a run occur in the order Write, Quit, Settle, Relaunch,
\* revalidate: the quit request follows both preference writes, a relaunch
\* attempt follows the quit request and the settle delay, revalidate follows
\* the end of the relaunch; a run fails only from the write step, and every
\* run that started ends Done or Failed.
C9_StepOrder ==
    /\ [](StepOrder(1))
    /\ (run[1].pc # "idle") ~> (run[1].pc \in {"done", "failed"})

\* a run for a device that is Done after all its steps
C9_Witness ==
    /\ run[1].pc = "done"
    /\ run[1].device # None
    /\ Len(run[1].log) = 8

----------------------------------------------------------------------------
(* Two runs, under TwoSpec *)

Requested(device) ==
    IF device = None THEN [deviceId |-> None, useDefault |-> TRUE]
    ELSE [deviceId |-> Some(device[1].uid), useDefault |-> FALSE]

\* C6: once two runs started in quick succession have both finished,
\* getCurrentSuperwhisperDevice returns the configuration requested by the
\* run whose write step executed last.
C6_LastWriteWins ==
    (/\ \A r \in Runs : run[r].pc \in {"done", "failed"}
     /\ lastWrite # None
     /\ lastRead # None
     /\ ~lastWrite[1].threw
     /\ lastRead[1].fault = "none")
    => lastRead[1].config = Requested(lastWrite[1].device)

====
